---- MODULE Spec2Model ----
(***************************************************************************)
(* Listing (Product) lifecycle of the marketplace backend: the persistent  *)
(* store behind ProductRepository and ProductService (products,            *)
(* product_price_history, sold_item_archive, product_images) and the media *)
(* store behind FileUploadService.                                         *)
(*                                                                         *)
(* Every repository/service call that runs inside one database transaction *)
(* is one action; ProductRepository.create commits twice and is therefore  *)
(* two actions with an observable state in between.                        *)
(*                                                                         *)
(* Nullable columns hold None (<<>>) or Some(v) (<<v>>).  A patch field is *)
(* Unset (<<>>, not in model_dump(exclude_unset=True)) or <<value>>.       *)
(***************************************************************************)
EXTENDS Integers, Sequences, FiniteSets, TLC

VARIABLES products, price_history, archive, images, blobs, now, next_id,
          next_image_id, next_url, creating, tasks, resp,
          product_tags, favorites, item_views, sessions

vars == <<products, price_history, archive, images, blobs, now, next_id,
          next_image_id, next_url, creating, tasks, resp,
          product_tags, favorites, item_views, sessions>>

\* ---------------------------------------------------------------- bounds
MaxId == 2
MaxListings == 1
MaxTime == 1
MaxArchive == 2
MaxImages == 2
MaxUrls == 2
MaxTasks == 1
MaxFiles == 1

\* ------------------------------------------------------- value domains
None == <<>>
Some(v) == <<v>>
Unset == <<>>

Ids == 1..MaxId
Listings == 1..MaxListings
Users == {1, 2}
Sellers == {1}
Amounts == {10, 20}
Currencies == {"DKK", "EUR"}
Titles == {"bike", "lamp"}
StatusEnum == {"active", "sold", "paused", "draft"}
Tags == {1}

Opt(S) == {None} \cup {Some(v) : v \in S}

\* Request bodies.  A ProductCreate carries every field; in the
\* model_dump(exclude_unset=True) of a ProductUpdate every field is Unset or
\* carries a value (an explicit null is a value).
ProductCreate(titles, amounts, currencies) ==
    [title : titles,
     price_amount : amounts,
     price_currency : currencies,
     category_id : {1},
     location_id : {None},
     tag_ids : {{}},
     image_urls : {<<>>}]

NoUpdate == [title |-> Unset, status |-> Unset, price_amount |-> Unset,
             price_currency |-> Unset, keep_image_ids |-> Unset, image_urls |-> Unset]

StatusUpdate == {[NoUpdate EXCEPT !.status = <<s>>] : s \in StatusEnum}

PriceUpdate ==
    {[NoUpdate EXCEPT !.price_amount = a, !.price_currency = c] :
        a \in {Unset} \cup {<<x>> : x \in Opt(Amounts)},
        c \in {Unset} \cup {<<x>> : x \in Opt(Currencies)}}

\* Inputs of the price ledger: every combination of amount and currency.
PriceCreate == ProductCreate({"bike"}, Opt(Amounts), Opt(Currencies))

\* Inputs of the status lifecycle: listings with and without a price, patches
\* of the status, of the title and of the amount.
LifecycleCreate == ProductCreate(Titles, {None, Some(10)}, {None, Some("DKK")})

LifecycleUpdate ==
    StatusUpdate \cup {NoUpdate, [NoUpdate EXCEPT !.title = <<"lamp">>],
                       [NoUpdate EXCEPT !.price_amount = <<Some(20)>>]}

\* ------------------------------------------------------------- helpers
Exists(p) == p \in DOMAIN products

\* ProductRepository.get_by_id: tombstoned rows are not returned.
get_by_id(p) == Exists(p) /\ products[p].deleted_at = None

Remove(f, p) == [i \in DOMAIN f \ {p} |-> f[i]]

Response(op, id, ok) ==
    [op |-> op, id |-> id, ok |-> ok, code |-> IF ok THEN 200 ELSE 400]

\* raise HTTPException(status_code=code)
Rejected(op, id, code) == [op |-> op, id |-> id, ok |-> FALSE, code |-> code]

Gate_no_owner_check(found, p, user_id, is_admin) == IF ~found THEN 404 ELSE 200

\* 404 when the row is absent, 403 when the caller is neither its seller nor
\* (where the operation admits admins) an admin, 200 otherwise.
Gate(found, p, user_id, is_admin) ==
    IF ~found THEN 404
    ELSE IF ~is_admin /\ products[p].seller_id # user_id THEN 403
    ELSE 200

HistoryOf(p) == {h \in price_history : h.product_id = p}

ArchiveOf(p) == {a \in archive : a.product_id = Some(p)}

\* Rows of product_tags, favorites and item_views that reference a listing.
TagsOf(p) == {r \in product_tags : r.product_id = p}

FavoritesOf(p) == {f \in favorites : f.product_id = p}

ViewsOf(p) == {v \in item_views : v.product_id = p}

ck_missing(row) == TRUE

\* CheckConstraint ck_price_amount_currency_nullness
ck_price_amount_currency_nullness(row) ==
    (row.price_amount = None) <=> (row.price_currency = None)

\* product_price_history: amount and currency NOT NULL, primary key
\* (product_id, changed_at)
price_history_insert_ok(hist, product_id, amount, currency, at) ==
    /\ amount # None
    /\ currency # None
    /\ ~ \E h \in hist : h.product_id = product_id /\ h.changed_at = at

ProductPriceHistory(product_id, amount, currency, at) ==
    [product_id |-> product_id, changed_at |-> at,
     amount |-> amount[1], currency |-> currency[1]]

Init ==
    /\ products = <<>>
    /\ price_history = {}
    /\ archive = {}
    /\ images = {}
    /\ blobs = {}
    /\ now = 0
    /\ next_id = 1
    /\ next_image_id = 1
    /\ next_url = 1
    /\ creating = <<>>
    /\ tasks = {}
    /\ resp = Response("init", 0, TRUE)
    /\ product_tags = {}
    /\ favorites = {}
    /\ item_views = {}
    /\ sessions = {}

\* ------------------------------------------- ProductRepository (one session)
\* Patch field access: update_data.get(field, default)
Get(data, field, default) ==
    IF data[field] # Unset THEN data[field][1] ELSE default

Max(S) == CHOOSE m \in S : \A x \in S : x <= m

SeqToSet(s) == {s[i] : i \in 1..Len(s)}

ImagesOf(imgs, p) == {img \in imgs : img.product_id = p}

\* Rows of a set of images as the list of their urls, in primary-key order.
RECURSIVE UrlsById(_)
UrlsById(imgs) ==
    IF imgs = {} THEN <<>>
    ELSE LET first == CHOOSE img \in imgs : \A o \in imgs : img.id <= o.id
         IN <<first.url>> \o UrlsById(imgs \ {first})

ProductImage(id, product_id, url, sort_order) ==
    [id |-> id, product_id |-> product_id, url |-> url, sort_order |-> sort_order]

\* ProductRepository.create, first transaction: the products row.
Product(data, seller_id) ==
    [seller_id |-> seller_id,
     title |-> data.title,
     price_amount |-> data.price_amount,
     price_currency |-> data.price_currency,
     category_id |-> data.category_id,
     status |-> "active",
     location_id |-> IF data.location_id # None THEN data.location_id[1] ELSE 1,
     sold_at |-> None,
     deleted_at |-> None,
     views_count |-> 0]

create(data, seller_id) ==
    /\ next_id <= MaxId
    /\ LET db_product == Product(data, seller_id)
       IN IF ck_price_amount_currency_nullness(db_product)
          THEN /\ products' = (next_id :> db_product) @@ products
               /\ creating' = (next_id :> data) @@ creating
               /\ next_id' = next_id + 1
               /\ resp' = Response("create", next_id, TRUE)
          ELSE /\ resp' = Response("create", 0, FALSE)
               /\ UNCHANGED <<products, creating, next_id>>
    /\ UNCHANGED <<sessions, product_tags, favorites, item_views,
                   price_history, archive, images, blobs, now, next_image_id,
                   next_url, tasks>>

\* ProductRepository.create, second transaction: initial price history and
\* image rows; an IntegrityError rolls back this transaction only.
create_dependents(p, data) ==
    LET with_price == data.price_amount # None
        new_images == {ProductImage(next_image_id + i - 1, p, data.image_urls[i], i - 1) :
                          i \in 1..Len(data.image_urls)}
        ok == /\ Exists(p)
              /\ with_price => price_history_insert_ok(price_history, p,
                                  data.price_amount, data.price_currency, now)
    IN [ok |-> ok,
        price_history |-> IF ok /\ with_price
                          THEN price_history \cup {ProductPriceHistory(p,
                                  data.price_amount, data.price_currency, now)}
                          ELSE price_history,
        images |-> IF ok THEN images \cup new_images ELSE images,
        \* _handle_product_relationships: the tags that exist
        product_tags |-> IF ok
                         THEN product_tags \cup
                              {[product_id |-> p, tag_id |-> tag] :
                                  tag \in data.tag_ids \cap Tags}
                         ELSE product_tags,
        next_image_id |-> IF ok THEN next_image_id + Len(data.image_urls)
                          ELSE next_image_id]

create_finish(p) ==
    /\ p \in DOMAIN creating
    /\ LET r == create_dependents(p, creating[p])
       IN /\ price_history' = r.price_history
          /\ images' = r.images
          /\ next_image_id' = r.next_image_id
          /\ product_tags' = r.product_tags
          /\ resp' = Response("create_finish", p, r.ok)
    /\ creating' = Remove(creating, p)
    /\ UNCHANGED <<sessions, products, archive, blobs, now, next_id, next_url, tasks,
                   favorites, item_views>>

\* ProductRepository.update, "Handle status changes" / "Update regular
\* fields": the status after the patch.
status_after_default(product, data) == Get(data, "status", "active")

status_after(product, data) == Get(data, "status", product.status)

images_to_delete_inverted(current_images, keep_image_ids) ==
    {img \in current_images : img.id \in keep_image_ids}

\* ProductRepository.update, "Identify images to delete (not in keep list)"
images_to_delete(current_images, keep_image_ids) ==
    {img \in current_images : img.id \notin keep_image_ids}

\* ProductRepository.update as one transaction.  The result is rolled back
\* (ok = FALSE) when a constraint of the store is violated at commit.
update_result(p, data, new_image_urls) ==
    LET product == products[p]
        price_touched == data.price_amount # Unset \/ data.price_currency # Unset
        new_amount == Get(data, "price_amount", product.price_amount)
        new_currency == Get(data, "price_currency", product.price_currency)
        price_changed == /\ price_touched
                         /\ (new_amount # product.price_amount
                             \/ new_currency # product.price_currency)
        current_images == ImagesOf(images, p)
        deleted == IF data.keep_image_ids # Unset
                   THEN images_to_delete(current_images, data.keep_image_ids[1])
                   ELSE {}
        \* SessionLocal(autoflush=False): the second query still returns
        \* the rows marked for deletion
        remaining_images == current_images
        max_sort_order == IF remaining_images # {}
                          THEN Max({img.sort_order : img \in remaining_images})
                          ELSE 0
        new_images == {ProductImage(next_image_id + i - 1, p, new_image_urls[i],
                                    max_sort_order + (i - 1) + 1) :
                          i \in 1..Len(new_image_urls)}
        new_status == status_after(product, data)
        updated == [product EXCEPT
                      !.sold_at = IF data.status # Unset /\ new_status = "sold"
                                  THEN Some(now) ELSE @,
                      !.status = new_status,
                      !.title = Get(data, "title", @),
                      !.price_amount = Get(data, "price_amount", @),
                      !.price_currency = Get(data, "price_currency", @)]
        ok == /\ ck_price_amount_currency_nullness(updated)
              /\ price_changed => price_history_insert_ok(price_history, p,
                                      new_amount, new_currency, now)
    IN [ok |-> ok,
        products |-> IF ok THEN [products EXCEPT ![p] = updated] ELSE products,
        price_history |-> IF ok /\ price_changed
                          THEN price_history \cup
                               {ProductPriceHistory(p, new_amount, new_currency, now)}
                          ELSE price_history,
        images |-> IF ok THEN (images \ deleted) \cup new_images ELSE images,
        next_image_id |-> IF ok THEN next_image_id + Len(new_image_urls)
                          ELSE next_image_id,
        deleted_image_urls |-> UrlsById(deleted)]

update(p, data, new_image_urls) ==
    /\ IF ~Exists(p)
       THEN /\ resp' = Response("update", p, FALSE)
            /\ UNCHANGED <<products, price_history, images, next_image_id>>
       ELSE LET r == update_result(p, data, new_image_urls)
            IN /\ products' = r.products
               /\ price_history' = r.price_history
               /\ images' = r.images
               /\ next_image_id' = r.next_image_id
               /\ resp' = Response("update", p, r.ok)
    /\ UNCHANGED <<sessions, product_tags, favorites, item_views,
                   archive, blobs, now, next_id, next_url, creating, tasks>>

ArchiveAfterDelete_cascade(p) == archive \ ArchiveOf(p)

\* sold_item_archive.product_id: ForeignKey(ondelete="SET NULL")
ArchiveAfterDelete(p) ==
    {IF a.product_id = Some(p) THEN [a EXCEPT !.product_id = None] ELSE a : a \in archive}

delete_keeps_views(p) ==
    /\ IF ~Exists(p)
       THEN /\ resp' = Response("delete", p, FALSE)
            /\ UNCHANGED <<products, price_history, images, archive,
                           product_tags, favorites>>
       ELSE /\ products' = Remove(products, p)
            /\ price_history' = price_history \ HistoryOf(p)
            /\ images' = images \ ImagesOf(images, p)
            /\ archive' = ArchiveAfterDelete(p)
            /\ product_tags' = product_tags \ TagsOf(p)
            /\ favorites' = favorites \ FavoritesOf(p)
            /\ resp' = Response("delete", p, TRUE)
    /\ UNCHANGED <<sessions, blobs, now, next_id, next_image_id, next_url, creating, tasks,
                   item_views>>

\* ProductRepository.delete: hard delete with its cascades.
delete(p) ==
    /\ IF ~Exists(p)
       THEN /\ resp' = Response("delete", p, FALSE)
            /\ UNCHANGED <<products, price_history, images, archive,
                           product_tags, favorites, item_views>>
       ELSE /\ products' = Remove(products, p)
            /\ price_history' = price_history \ HistoryOf(p)
            /\ images' = images \ ImagesOf(images, p)
            /\ archive' = ArchiveAfterDelete(p)
            /\ product_tags' = product_tags \ TagsOf(p)
            /\ favorites' = favorites \ FavoritesOf(p)
            /\ item_views' = item_views \ ViewsOf(p)
            /\ resp' = Response("delete", p, TRUE)
    /\ UNCHANGED <<sessions, blobs, now, next_id, next_image_id, next_url, creating, tasks>>

soft_delete_and_pause(p) ==
    /\ IF ~Exists(p)
       THEN /\ resp' = Response("soft_delete", p, FALSE)
            /\ UNCHANGED products
       ELSE /\ products' = [products EXCEPT ![p].deleted_at = Some(now),
                                            ![p].status = "paused"]
            /\ resp' = Response("soft_delete", p, TRUE)
    /\ UNCHANGED <<sessions, product_tags, favorites, item_views,
                   price_history, archive, images, blobs, now, next_id,
                   next_image_id, next_url, creating, tasks>>

\* ProductRepository.soft_delete: deleted_at (and updated_at, which the model
\* does not carry) of the row, whether or not it is already tombstoned.
soft_delete(p) ==
    /\ IF ~Exists(p)
       THEN /\ resp' = Response("soft_delete", p, FALSE)
            /\ UNCHANGED products
       ELSE /\ products' = [products EXCEPT ![p].deleted_at = Some(now)]
            /\ resp' = Response("soft_delete", p, TRUE)
    /\ UNCHANGED <<sessions, product_tags, favorites, item_views,
                   price_history, archive, images, blobs, now, next_id,
                   next_image_id, next_url, creating, tasks>>

\* The stored procedure ArchiveSoldProduct (its SQL is not part of the
\* sources; modelled from the markSold contract): snapshot the listing into
\* sold_item_archive, then set status = sold and sold_at = now.  It signals
\* an error when the listing is absent or has no price.
SoldItemArchive(id, p, product, at) ==
    [id |-> id,
     product_id |-> Some(p),
     title |-> product.title,
     category_id |-> product.category_id,
     location_id |-> product.location_id,
     price_amount |-> product.price_amount,
     price_currency |-> product.price_currency,
     sold_at |-> at]

ArchiveSoldProduct(p) ==
    LET raised == ~Exists(p) \/ products[p].price_amount = None
    IN [raised |-> raised,
        archive |-> IF raised THEN archive
                    ELSE archive \cup
                         {SoldItemArchive(Cardinality(archive) + 1, p, products[p], now)},
        products |-> IF raised THEN products
                     ELSE [products EXCEPT ![p].status = "sold",
                                           ![p].sold_at = Some(now)]]

archive_sold_product_always_true(p) ==
    /\ Cardinality(archive) < MaxArchive
    /\ LET call == ArchiveSoldProduct(p)
       IN /\ archive' = call.archive
          /\ products' = call.products
          /\ resp' = Response("archive_sold_product", p, TRUE)
    /\ UNCHANGED <<sessions, product_tags, favorites, item_views,
                   price_history, images, blobs, now, next_id, next_image_id,
                   next_url, creating, tasks>>

archive_sold_product_no_commit(p) ==
    /\ Cardinality(archive) < MaxArchive
    /\ resp' = Response("archive_sold_product", p, ~ArchiveSoldProduct(p).raised)
    /\ UNCHANGED <<sessions, product_tags, favorites, item_views,
                   archive, products, price_history, images, blobs, now, next_id,
                   next_image_id, next_url, creating, tasks>>

\* ProductRepository.archive_sold_product: CALL + commit, or rollback and
\* return False on any exception.
archive_sold_product(p) ==
    /\ Cardinality(archive) < MaxArchive
    /\ LET call == ArchiveSoldProduct(p)
       IN IF ~call.raised
          THEN /\ archive' = call.archive
               /\ products' = call.products
               /\ resp' = Response("archive_sold_product", p, TRUE)
          ELSE /\ resp' = Response("archive_sold_product", p, FALSE)
               /\ UNCHANGED <<archive, products>>
    /\ UNCHANGED <<sessions, product_tags, favorites, item_views,
                   price_history, images, blobs, now, next_id, next_image_id,
                   next_url, creating, tasks>>

\* ------------------------------------------------------- ProductService
\* ProductService.update_product(db, product_id, product_update, user_id,
\* is_admin): 404 / 403, then the patch in one transaction.
update_product_result(p, data) ==
    LET product == products[p]
        price_touched == data.price_amount # Unset \/ data.price_currency # Unset
        new_amount == Get(data, "price_amount", product.price_amount)
        new_currency == Get(data, "price_currency", product.price_currency)
        price_changed == /\ price_touched
                         /\ (new_amount # product.price_amount
                             \/ new_currency # product.price_currency)
        replace_images == data.image_urls # Unset
        new_urls == Get(data, "image_urls", <<>>)
        new_images == {ProductImage(next_image_id + i - 1, p, new_urls[i], (i - 1) + 1) :
                          i \in 1..Len(new_urls)}
        new_status == Get(data, "status", product.status)
        updated == [product EXCEPT
                      !.sold_at = IF data.status = Unset THEN @
                                  ELSE IF new_status = "sold" THEN Some(now)
                                  ELSE IF product.status = "sold" THEN None
                                  ELSE @,
                      !.status = new_status,
                      !.title = Get(data, "title", @),
                      !.price_amount = Get(data, "price_amount", @),
                      !.price_currency = Get(data, "price_currency", @)]
        ok == /\ ck_price_amount_currency_nullness(updated)
              /\ price_changed => price_history_insert_ok(price_history, p,
                                      new_amount, new_currency, now)
    IN [ok |-> ok,
        products |-> IF ok THEN [products EXCEPT ![p] = updated] ELSE products,
        price_history |-> IF ok /\ price_changed
                          THEN price_history \cup
                               {ProductPriceHistory(p, new_amount, new_currency, now)}
                          ELSE price_history,
        images |-> IF ok /\ replace_images
                   THEN (images \ ImagesOf(images, p)) \cup new_images
                   ELSE images,
        next_image_id |-> IF ok THEN next_image_id + Len(new_urls) ELSE next_image_id]

update_product(p, data, user_id, is_admin) ==
    /\ IF Gate(Exists(p), p, user_id, is_admin) # 200
       THEN /\ resp' = Rejected("update_product", p, Gate(Exists(p), p, user_id, is_admin))
            /\ UNCHANGED <<products, price_history, images, next_image_id>>
       ELSE LET r == update_product_result(p, data)
            IN /\ products' = r.products
               /\ price_history' = r.price_history
               /\ images' = r.images
               /\ next_image_id' = r.next_image_id
               /\ resp' = Response("update_product", p, r.ok)
    /\ UNCHANGED <<sessions, product_tags, favorites, item_views,
                   archive, blobs, now, next_id, next_url, creating, tasks>>

\* ProductService.delete_product(db, product_id, user_id): owner-only hard
\* delete of the row and its favorites, views, price history and images.
delete_product(p, user_id) ==
    /\ IF Gate(Exists(p), p, user_id, FALSE) # 200
       THEN /\ resp' = Rejected("delete_product", p, Gate(Exists(p), p, user_id, FALSE))
            /\ UNCHANGED <<products, price_history, images, archive,
                           product_tags, favorites, item_views>>
       ELSE /\ products' = Remove(products, p)
            /\ price_history' = price_history \ HistoryOf(p)
            /\ images' = images \ ImagesOf(images, p)
            /\ archive' = ArchiveAfterDelete(p)
            /\ product_tags' = product_tags \ TagsOf(p)
            /\ favorites' = favorites \ FavoritesOf(p)
            /\ item_views' = item_views \ ViewsOf(p)
            /\ resp' = Response("delete_product", p, TRUE)
    /\ UNCHANGED <<sessions, blobs, now, next_id, next_image_id, next_url, creating, tasks>>

mark_product_sold_no_stamp(p, user_id) ==
    /\ IF Gate(Exists(p), p, user_id, FALSE) # 200
       THEN /\ resp' = Rejected("mark_product_sold", p, Gate(Exists(p), p, user_id, FALSE))
            /\ UNCHANGED products
       ELSE /\ products' = [products EXCEPT ![p].status = "sold"]
            /\ resp' = Response("mark_product_sold", p, TRUE)
    /\ UNCHANGED <<sessions, product_tags, favorites, item_views,
                   price_history, archive, images, blobs, now, next_id,
                   next_image_id, next_url, creating, tasks>>

\* ProductService.mark_product_sold(db, product_id, user_id)
mark_product_sold(p, user_id) ==
    /\ IF Gate(Exists(p), p, user_id, FALSE) # 200
       THEN /\ resp' = Rejected("mark_product_sold", p, Gate(Exists(p), p, user_id, FALSE))
            /\ UNCHANGED products
       ELSE /\ products' = [products EXCEPT ![p].status = "sold",
                                            ![p].sold_at = Some(now)]
            /\ resp' = Response("mark_product_sold", p, TRUE)
    /\ UNCHANGED <<sessions, product_tags, favorites, item_views,
                   price_history, archive, images, blobs, now, next_id,
                   next_image_id, next_url, creating, tasks>>

\* ProductService.toggle_product_status(product_id, user_id) of the
\* repository-backed service (only its tests are in the sources): owner-only,
\* active <-> paused through ProductRepository.update; get_by_id hides
\* tombstoned rows.
toggle_product_status(p, user_id) ==
    /\ IF Gate(get_by_id(p), p, user_id, FALSE) # 200
       THEN /\ resp' = Rejected("toggle_product_status", p,
                                Gate(get_by_id(p), p, user_id, FALSE))
            /\ UNCHANGED <<products, price_history, images, next_image_id>>
       ELSE IF products[p].status \notin {"active", "paused"}
       THEN /\ resp' = Response("toggle_product_status", p, FALSE)
            /\ UNCHANGED <<products, price_history, images, next_image_id>>
       ELSE LET new_status == IF products[p].status = "active" THEN "paused" ELSE "active"
                data == [NoUpdate EXCEPT !.status = <<new_status>>]
                r == update_result(p, data, <<>>)
            IN /\ products' = r.products
               /\ price_history' = r.price_history
               /\ images' = r.images
               /\ next_image_id' = r.next_image_id
               /\ resp' = Response("toggle_product_status", p, r.ok)
    /\ UNCHANGED <<sessions, product_tags, favorites, item_views,
                   archive, blobs, now, next_id, next_url, creating, tasks>>

\* The wall clock (datetime.now) advances between requests.
Tick ==
    /\ now < MaxTime
    /\ now' = now + 1
    /\ UNCHANGED <<sessions, product_tags, favorites, item_views,
                   products, price_history, archive, images, blobs, next_id,
                   next_image_id, next_url, creating, tasks, resp>>

\* ------------------------------------------------ listing lifecycle
Next ==
    \/ Tick
    \/ \E data \in LifecycleCreate, seller_id \in Sellers :
          next_id <= MaxListings /\ create(data, seller_id)
    \/ \E p \in Listings : create_finish(p)
    \/ \E p \in Listings, data \in LifecycleUpdate : update(p, data, <<>>)
    \/ \E p \in Listings : delete(p)
    \/ \E p \in Listings : soft_delete(p)
    \/ \E p \in Listings : archive_sold_product(p)
    \/ \E p \in Listings, data \in LifecycleUpdate, user_id \in Users, is_admin \in BOOLEAN :
          update_product(p, data, user_id, is_admin)
    \/ \E p \in Listings, user_id \in Users : delete_product(p, user_id)
    \/ \E p \in Listings, user_id \in Users : mark_product_sold(p, user_id)
    \/ \E p \in Listings, user_id \in Users : toggle_product_status(p, user_id)

Spec == Init /\ [][Next]_vars

\* ---------------------------------------------------- price ledger
NextPrice ==
    \/ Tick
    \/ \E data \in PriceCreate, seller_id \in Sellers :
          next_id <= MaxListings /\ create(data, seller_id)
    \/ \E p \in Listings : create_finish(p)
    \/ \E p \in Listings, data \in PriceUpdate : update(p, data, <<>>)
    \/ \E p \in Listings, data \in PriceUpdate, user_id \in Users, is_admin \in BOOLEAN :
          update_product(p, data, user_id, is_admin)
    \/ \E p \in Listings : delete(p)
    \/ \E p \in Listings : soft_delete(p)

SpecPrice == Init /\ [][NextPrice]_vars

\* ------------------------------------------------------------ media
\* FileUploadService.validate_and_save_images: one stored object per file,
\* named by a fresh uuid4; the urls of n files.
validate_and_save_images(n) == [i \in 1..n |-> next_url + i - 1]

\* A url is a number: u in 1..MaxUrls is the url the store handed out for
\* the file it named u, and -u is a url of another directory or host whose
\* last path segment is that name.  Path(url).name, url.split('/')[-1]:
filename(url) == IF url < 0 THEN -url ELSE url

\* FileUploadService._cleanup_files: best effort per url, a failed removal is
\* logged and skipped; the file removed is the one in the upload directory
\* that has the url's file name.
_cleanup_files_all(store, image_urls, failed) == {}

_cleanup_files(store, image_urls, failed) ==
    store \ {filename(url) : url \in SeqToSet(image_urls) \ failed}

delete_images_noop(store, image_urls, failed) == store

\* FileUploadService.delete_images
delete_images(store, image_urls, failed) == _cleanup_files(store, image_urls, failed)

\* A request of the repository-backed ProductService between two of its
\* awaits: the bytes it saved (pc = "saved"), the listing row it inserted
\* (pc = "inserted"), or the urls its committed transaction returned for
\* removal (pc = "committed").
Task(op, pc, id, data, urls) ==
    [op |-> op, pc |-> pc, id |-> id, data |-> data, urls |-> urls]

MediaProduct == CHOOSE data \in ProductCreate({"bike"}, {Some(10)}, {Some("DKK")}) : TRUE

\* Urls the API has handed out in a ProductResponse.
LinkedUrls == {img.url : img \in images}

\* ProductService.create_product(product, seller_id, image_files) of the
\* repository-backed service, up to the saved bytes.
create_product_save(n, valid) ==
    /\ Cardinality(tasks) < MaxTasks
    /\ next_id <= MaxId
    /\ next_url + n - 1 <= MaxUrls
    /\ IF valid
       THEN /\ blobs' = blobs \cup SeqToSet(validate_and_save_images(n))
            /\ next_url' = next_url + n
            /\ tasks' = tasks \cup {Task("create_product", "saved", 0, NoUpdate,
                                         validate_and_save_images(n))}
            /\ UNCHANGED resp
       ELSE /\ resp' = Response("create_product", 0, FALSE)
            /\ UNCHANGED <<blobs, next_url, tasks>>
    /\ UNCHANGED <<sessions, product_tags, favorites, item_views,
                   products, price_history, archive, images, now, next_id,
                   next_image_id, creating>>

\* ... ProductRepository.create, first transaction; on failure the saved
\* bytes are removed.
create_product_insert(t, failed) ==
    /\ t \in tasks /\ t.op = "create_product" /\ t.pc = "saved"
    /\ next_id <= MaxId
    /\ LET db_product == Product([MediaProduct EXCEPT !.image_urls = t.urls], 1)
       IN IF ck_price_amount_currency_nullness(db_product)
          THEN /\ failed = {}
               /\ products' = (next_id :> db_product) @@ products
               /\ next_id' = next_id + 1
               /\ tasks' = (tasks \ {t}) \cup {[t EXCEPT !.pc = "inserted", !.id = next_id]}
               /\ UNCHANGED <<blobs, resp>>
          ELSE /\ blobs' = delete_images(blobs, t.urls, failed)
               /\ tasks' = tasks \ {t}
               /\ resp' = Response("create_product", 0, FALSE)
               /\ UNCHANGED <<products, next_id>>
    /\ UNCHANGED <<sessions, product_tags, favorites, item_views,
                   price_history, archive, images, now, next_image_id, next_url,
                   creating>>

\* ... ProductRepository.create, second transaction; on failure the saved
\* bytes are removed.
create_product_finish(t, failed) ==
    /\ t \in tasks /\ t.op = "create_product" /\ t.pc = "inserted"
    /\ LET r == create_dependents(t.id, [MediaProduct EXCEPT !.image_urls = t.urls])
       IN /\ price_history' = r.price_history
          /\ images' = r.images
          /\ next_image_id' = r.next_image_id
          /\ product_tags' = r.product_tags
          /\ resp' = Response("create_product", t.id, r.ok)
          /\ IF r.ok THEN failed = {} /\ UNCHANGED blobs
                     ELSE blobs' = delete_images(blobs, t.urls, failed)
    /\ tasks' = tasks \ {t}
    /\ UNCHANGED <<sessions, products, archive, now, next_id, next_url, creating,
                   favorites, item_views>>

\* ProductService.update_product(product_id, product_update, user_id,
\* is_admin, image_files) of the repository-backed service: 404 / 403, then
\* the new bytes are saved.
update_product_save(p, data, user_id, is_admin, n) ==
    /\ Cardinality(tasks) < MaxTasks
    /\ next_url + n - 1 <= MaxUrls
    /\ IF Gate(get_by_id(p), p, user_id, is_admin) # 200
       THEN /\ resp' = Rejected("update_product", p, Gate(get_by_id(p), p, user_id, is_admin))
            /\ UNCHANGED <<blobs, next_url, tasks>>
       ELSE /\ blobs' = blobs \cup SeqToSet(validate_and_save_images(n))
            /\ next_url' = next_url + n
            /\ tasks' = tasks \cup {Task("update_product", "saved", p, data,
                                         validate_and_save_images(n))}
            /\ UNCHANGED resp
    /\ UNCHANGED <<sessions, product_tags, favorites, item_views,
                   products, price_history, archive, images, now, next_id,
                   next_image_id, creating>>

\* ... ProductRepository.update in one transaction; on failure the new bytes
\* are removed, on success the urls of the removed rows are kept for the
\* removal of their bytes.
update_product_commit(t, failed) ==
    /\ t \in tasks /\ t.op = "update_product" /\ t.pc = "saved"
    /\ LET r == IF Exists(t.id)
                THEN update_result(t.id, t.data, t.urls)
                ELSE [ok |-> FALSE, products |-> products, price_history |-> price_history,
                      images |-> images, next_image_id |-> next_image_id,
                      deleted_image_urls |-> <<>>]
       IN /\ products' = r.products
          /\ price_history' = r.price_history
          /\ images' = r.images
          /\ next_image_id' = r.next_image_id
          /\ IF r.ok
             THEN /\ failed = {}
                  /\ tasks' = (tasks \ {t}) \cup
                              {Task("update_product", "committed", t.id, NoUpdate,
                                    r.deleted_image_urls)}
                  /\ UNCHANGED <<blobs, resp>>
             ELSE /\ blobs' = delete_images(blobs, t.urls, failed)
                  /\ tasks' = tasks \ {t}
                  /\ resp' = Rejected("update_product", t.id,
                                      IF Exists(t.id) THEN 400 ELSE 500)
    /\ UNCHANGED <<sessions, product_tags, favorites, item_views,
                   archive, now, next_id, next_url, creating>>

\* ProductService.force_delete_product(product_id) of the repository-backed
\* service: ProductRepository.delete, then the bytes of the returned urls.
force_delete_product(p) ==
    /\ Cardinality(tasks) < MaxTasks
    /\ IF ~Exists(p)
       THEN /\ resp' = Response("force_delete_product", p, FALSE)
            /\ UNCHANGED <<products, price_history, images, archive, tasks,
                           product_tags, favorites, item_views>>
       ELSE /\ products' = Remove(products, p)
            /\ price_history' = price_history \ HistoryOf(p)
            /\ images' = images \ ImagesOf(images, p)
            /\ archive' = ArchiveAfterDelete(p)
            /\ product_tags' = product_tags \ TagsOf(p)
            /\ favorites' = favorites \ FavoritesOf(p)
            /\ item_views' = item_views \ ViewsOf(p)
            /\ tasks' = tasks \cup {Task("force_delete_product", "committed", p, NoUpdate,
                                         UrlsById(ImagesOf(images, p)))}
            /\ UNCHANGED resp
    /\ UNCHANGED <<sessions, blobs, now, next_id, next_image_id, next_url, creating>>

\* ... the removal of the bytes after the commit.
delete_images_after_commit(t, failed) ==
    /\ t \in tasks /\ t.pc = "committed"
    /\ blobs' = delete_images(blobs, t.urls, failed)
    /\ tasks' = tasks \ {t}
    /\ resp' = Response(t.op, t.id, TRUE)
    /\ UNCHANGED <<sessions, product_tags, favorites, item_views,
                   products, price_history, archive, images, now, next_id,
                   next_image_id, next_url, creating>>

KeepImageIds(p) ==
    {Unset} \cup {<<S>> : S \in SUBSET {img.id : img \in ImagesOf(images, p)}}

ClientImageUrls == {<<>>} \cup {<<url>> : url \in LinkedUrls}

NextMedia ==
    \/ \E n \in 1..MaxFiles, valid \in BOOLEAN : create_product_save(n, valid)
    \/ \E t \in tasks : \E failed \in SUBSET SeqToSet(t.urls) : create_product_insert(t, failed)
    \/ \E t \in tasks : \E failed \in SUBSET SeqToSet(t.urls) : create_product_finish(t, failed)
    \/ \E image_urls \in ClientImageUrls, seller_id \in Sellers :
          create([MediaProduct EXCEPT !.image_urls = image_urls], seller_id)
    \/ \E p \in Ids : create_finish(p)
    \/ \E p \in Ids, user_id \in Users, n \in 0..MaxFiles :
          \E keep \in KeepImageIds(p) :
             update_product_save(p, [NoUpdate EXCEPT !.keep_image_ids = keep],
                                 user_id, FALSE, n)
    \/ \E t \in tasks : \E failed \in SUBSET SeqToSet(t.urls) : update_product_commit(t, failed)
    \/ \E t \in tasks : \E failed \in SUBSET SeqToSet(t.urls) : delete_images_after_commit(t, failed)
    \/ \E p \in Ids : force_delete_product(p)
    \/ \E p \in Ids : soft_delete(p)
    \/ \E p \in Ids, image_urls \in ClientImageUrls, user_id \in Sellers :
          /\ next_image_id <= MaxImages
          /\ update_product(p, [NoUpdate EXCEPT !.image_urls = <<image_urls>>],
                            user_id, FALSE)
    \/ \E p \in Ids, user_id \in Sellers : delete_product(p, user_id)

SpecMedia == Init /\ [][NextMedia]_vars


\* ------------------------------------------------- lifecycle service
\* ProductService.delete_product(product_id, user_id) of the
\* repository-backed service: owner-only soft delete.
delete_product_soft(p, user_id) ==
    /\ IF Gate(get_by_id(p), p, user_id, FALSE) # 200
       THEN /\ resp' = Rejected("delete_product", p, Gate(get_by_id(p), p, user_id, FALSE))
            /\ UNCHANGED products
       ELSE /\ products' = [products EXCEPT ![p].deleted_at = Some(now)]
            /\ resp' = Response("delete_product", p, TRUE)
    /\ UNCHANGED <<sessions, product_tags, favorites, item_views,
                   price_history, archive, images, blobs, now, next_id,
                   next_image_id, next_url, creating, tasks>>

\* ProductService.mark_product_as_sold(product_id, user_id, is_admin) of the
\* repository-backed service: 404 / 403, a price is required, then markSold.
mark_product_as_sold(p, user_id, is_admin) ==
    /\ Cardinality(archive) < MaxArchive
    /\ IF Gate(get_by_id(p), p, user_id, is_admin) # 200
       THEN /\ resp' = Rejected("mark_product_as_sold", p,
                                Gate(get_by_id(p), p, user_id, is_admin))
            /\ UNCHANGED <<archive, products>>
       ELSE LET call == ArchiveSoldProduct(p)
            IN IF ~call.raised
               THEN /\ archive' = call.archive
                    /\ products' = call.products
                    /\ resp' = Response("mark_product_as_sold", p, TRUE)
               ELSE /\ resp' = Response("mark_product_as_sold", p, FALSE)
                    /\ UNCHANGED <<archive, products>>
    /\ UNCHANGED <<sessions, product_tags, favorites, item_views,
                   price_history, images, blobs, now, next_id, next_image_id,
                   next_url, creating, tasks>>

\* Patches of the service: which images to keep, and a patch that clears the
\* amount alone (rejected at commit by the price check constraint).
ServiceUpdate(p) ==
    {[NoUpdate EXCEPT !.keep_image_ids = keep, !.price_amount = amount] :
        keep \in KeepImageIds(p), amount \in {Unset, <<None>>}}

NextService ==
    \/ \E n \in 1..MaxFiles, valid \in BOOLEAN :
          next_id <= MaxListings /\ create_product_save(n, valid)
    \/ \E t \in tasks : \E failed \in SUBSET SeqToSet(t.urls) : create_product_insert(t, failed)
    \/ \E t \in tasks : \E failed \in SUBSET SeqToSet(t.urls) : create_product_finish(t, failed)
    \/ \E p \in Listings, user_id \in Users, is_admin \in BOOLEAN, n \in 0..MaxFiles :
          \E data \in ServiceUpdate(p) : update_product_save(p, data, user_id, is_admin, n)
    \/ \E t \in tasks : \E failed \in SUBSET SeqToSet(t.urls) : update_product_commit(t, failed)
    \/ \E t \in tasks : \E failed \in SUBSET SeqToSet(t.urls) : delete_images_after_commit(t, failed)
    \/ \E p \in Listings : force_delete_product(p)
    \/ \E p \in Listings, user_id \in Users : delete_product_soft(p, user_id)
    \/ \E p \in Listings, user_id \in Users : toggle_product_status(p, user_id)
    \/ \E p \in Listings, user_id \in Users, is_admin \in BOOLEAN :
          mark_product_as_sold(p, user_id, is_admin)
    \/ \E p \in Listings, user_id \in Users, is_admin \in BOOLEAN :
          update_product(p, [NoUpdate EXCEPT !.title = <<"lamp">>], user_id, is_admin)
    \/ \E p \in Listings, user_id \in Users : delete_product(p, user_id)
    \/ \E p \in Listings, user_id \in Users : mark_product_sold(p, user_id)

SpecService == Init /\ [][NextService]_vars

\* ------------------------------------------------- views and favorites
MaxViews == 3

\* add_favorite (routers/favorites.py): 404 when the listing row is absent,
\* 400 when the pair is already a favorite, 201 otherwise.
Favorite(user_id, p) == [user_id |-> user_id, product_id |-> p]

add_favorite(p, user_id) ==
    /\ IF ~Exists(p)
       THEN /\ resp' = Rejected("add_favorite", p, 404)
            /\ UNCHANGED favorites
       ELSE IF Favorite(user_id, p) \in favorites
       THEN /\ resp' = Rejected("add_favorite", p, 400)
            /\ UNCHANGED favorites
       ELSE /\ favorites' = favorites \cup {Favorite(user_id, p)}
            /\ resp' = [Response("add_favorite", p, TRUE) EXCEPT !.code = 201]
    /\ UNCHANGED <<sessions, products, price_history, archive, images, blobs, now, next_id,
                   next_image_id, next_url, creating, tasks, product_tags,
                   item_views>>

\* item_views: auto-increment primary key id, no other key.
ItemView(p, viewer_user_id) ==
    [id |-> IF item_views = {} THEN 1 ELSE Max({v.id : v \in item_views}) + 1,
     product_id |-> p,
     viewer_user_id |-> viewer_user_id]

existing_view_none(p, viewer_user_id) == FALSE

\* "Check if user already viewed this product"
existing_view(p, viewer_user_id) ==
    \E v \in item_views : v.product_id = p /\ v.viewer_user_id = viewer_user_id

\* The insert trigger on item_views (its SQL is not part of the sources;
\* modelled from the recordView contract): views_count of the listing + 1.
views_count_trigger(p) == [products EXCEPT ![p].views_count = @ + 1]

\* ProductRepository.record_view: pre-check, insert, commit; an
\* IntegrityError (the listing row is absent) rolls back and returns False.
record_view(p, viewer_user_id) ==
    /\ Cardinality(item_views) < MaxViews
    /\ IF existing_view(p, viewer_user_id) \/ ~Exists(p)
       THEN /\ resp' = Response("record_view", p, FALSE)
            /\ UNCHANGED <<item_views, products>>
       ELSE /\ item_views' = item_views \cup {ItemView(p, viewer_user_id)}
            /\ products' = views_count_trigger(p)
            /\ resp' = Response("record_view", p, TRUE)
    /\ UNCHANGED <<sessions, price_history, archive, images, blobs, now, next_id,
                   next_image_id, next_url, creating, tasks, product_tags,
                   favorites>>

\* ProductService.get_product_by_id(db, product_id, current_user_id): no
\* tombstone filter; paused and draft listings are denied to non-owners; a
\* view is recorded for an authenticated caller who is not the seller.
access_denied_never(p, current_user_id) == FALSE

access_denied(p, current_user_id) ==
    /\ current_user_id # Some(products[p].seller_id)
    /\ products[p].status \notin {"active", "sold"}

get_product_by_id(p, current_user_id) ==
    /\ Cardinality(item_views) < MaxViews
    /\ IF ~Exists(p)
       THEN /\ resp' = Rejected("get_product_by_id", p, 404)
            /\ UNCHANGED <<item_views, products>>
       ELSE IF access_denied(p, current_user_id)
       THEN /\ resp' = Rejected("get_product_by_id", p, 404)
            /\ UNCHANGED <<item_views, products>>
       ELSE /\ IF /\ current_user_id # None
                  /\ current_user_id # Some(products[p].seller_id)
                  /\ ~existing_view(p, current_user_id[1])
               THEN /\ item_views' = item_views \cup {ItemView(p, current_user_id[1])}
                    /\ products' = views_count_trigger(p)
               ELSE UNCHANGED <<item_views, products>>
            /\ resp' = Response("get_product_by_id", p, TRUE)
    /\ UNCHANGED <<sessions, price_history, archive, images, blobs, now, next_id,
                   next_image_id, next_url, creating, tasks, product_tags,
                   favorites>>

\* Listings with and without tags.
EdgeCreate ==
    {[data EXCEPT !.tag_ids = tag_ids] :
        data \in ProductCreate({"bike"}, {Some(10)}, {Some("DKK")}),
        tag_ids \in SUBSET Tags}

NextEdges ==
    \/ \E n \in 1..MaxFiles : next_id <= MaxListings /\ create_product_save(n, TRUE)
    \/ \E t \in tasks : create_product_insert(t, {})
    \/ \E t \in tasks : create_product_finish(t, {})
    \/ \E data \in EdgeCreate, seller_id \in Sellers : create(data, seller_id)
    \/ \E p \in Ids : create_finish(p)
    \/ \E p \in Ids, user_id \in Users \ Sellers : add_favorite(p, user_id)
    \/ \E p \in Ids, viewer_user_id \in Users \ Sellers : record_view(p, viewer_user_id)
    \/ \E p \in Ids, current_user_id \in Opt(Users \ Sellers) :
          get_product_by_id(p, current_user_id)
    \/ \E p \in Ids : soft_delete(p)
    \/ \E p \in Ids, user_id \in Users : delete_product_soft(p, user_id)
    \/ \E p \in Ids : delete(p)
    \/ \E p \in Ids : force_delete_product(p)
    \/ \E t \in tasks : \E failed \in SUBSET SeqToSet(t.urls) : delete_images_after_commit(t, failed)

SpecEdges == Init /\ [][NextEdges]_vars

\* ------------------------------------------------- concurrent sessions
MaxSessions == 2

\* A repository call between its first query and its commit, on a database
\* session of its own: the row it read (None for a record_view call).
Session(sid, op, id, user_id, data, row) ==
    [sid |-> sid, op |-> op, id |-> id, user_id |-> user_id, data |-> data, row |-> row]

FreeSid == CHOOSE sid \in 1..MaxSessions : \A s \in sessions : s.sid # sid

\* ProductRepository.record_view up to the pre-check.
record_view_check(p, viewer_user_id) ==
    /\ Cardinality(sessions) < MaxSessions
    /\ IF existing_view(p, viewer_user_id)
       THEN /\ resp' = Response("record_view", p, FALSE)
            /\ UNCHANGED sessions
       ELSE /\ sessions' = sessions \cup
                   {Session(FreeSid, "record_view", p, viewer_user_id, NoUpdate, None)}
            /\ UNCHANGED resp
    /\ UNCHANGED <<products, price_history, archive, images, blobs, now, next_id,
                   next_image_id, next_url, creating, tasks, product_tags,
                   favorites, item_views>>

\* ... the insert and the commit.  item_views has no key but its id, so the
\* insert fails only when the listing row is gone (foreign key).
record_view_insert(s) ==
    /\ s \in sessions /\ s.op = "record_view"
    /\ Cardinality(item_views) < MaxViews
    /\ IF ~Exists(s.id)
       THEN /\ resp' = Response("record_view", s.id, FALSE)
            /\ UNCHANGED <<item_views, products>>
       ELSE /\ item_views' = item_views \cup {ItemView(s.id, s.user_id)}
            /\ products' = views_count_trigger(s.id)
            /\ resp' = Response("record_view", s.id, TRUE)
    /\ sessions' = sessions \ {s}
    /\ UNCHANGED <<price_history, archive, images, blobs, now, next_id,
                   next_image_id, next_url, creating, tasks, product_tags,
                   favorites>>

\* ProductRepository.update on a session of its own, up to the load of the
\* row (no deleted_at filter); patches of the title and the price.
update_read(p, data) ==
    /\ Cardinality(sessions) < MaxSessions
    /\ data.status = Unset /\ data.keep_image_ids = Unset
    /\ IF ~Exists(p)
       THEN /\ resp' = Response("update", p, FALSE)
            /\ UNCHANGED sessions
       ELSE /\ sessions' = sessions \cup
                   {Session(FreeSid, "update", p, 0, data, Some(products[p]))}
            /\ UNCHANGED resp
    /\ UNCHANGED <<products, price_history, archive, images, blobs, now, next_id,
                   next_image_id, next_url, creating, tasks, product_tags,
                   favorites, item_views>>

\* ... the rest of it: the history entry is decided against the row as it
\* was loaded, the UPDATE the commit flushes sets the attributes whose value
\* differs from the loaded one, changed_at is the clock at the flush.
update_commit(s) ==
    /\ s \in sessions /\ s.op = "update"
    /\ LET p == s.id
           data == s.data
           product == s.row[1]
           price_touched == data.price_amount # Unset \/ data.price_currency # Unset
           new_amount == Get(data, "price_amount", product.price_amount)
           new_currency == Get(data, "price_currency", product.price_currency)
           price_changed == /\ price_touched
                            /\ (new_amount # product.price_amount
                                \/ new_currency # product.price_currency)
           patched == [product EXCEPT !.title = Get(data, "title", @),
                                      !.price_amount = Get(data, "price_amount", @),
                                      !.price_currency = Get(data, "price_currency", @)]
           flushed == [f \in DOMAIN product |->
                          IF patched[f] # product[f] THEN patched[f] ELSE products[p][f]]
           ok == /\ ck_price_amount_currency_nullness(flushed)
                 /\ price_changed => price_history_insert_ok(price_history, p,
                                         new_amount, new_currency, now)
       IN IF ~Exists(p)
          THEN /\ resp' = Rejected("update", p, 500)
               /\ UNCHANGED <<products, price_history>>
          ELSE /\ products' = IF ok THEN [products EXCEPT ![p] = flushed] ELSE products
               /\ price_history' = IF ok /\ price_changed
                                   THEN price_history \cup
                                        {ProductPriceHistory(p, new_amount, new_currency, now)}
                                   ELSE price_history
               /\ resp' = Response("update", p, ok)
    /\ sessions' = sessions \ {s}
    /\ UNCHANGED <<archive, images, blobs, now, next_id, next_image_id, next_url,
                   creating, tasks, product_tags, favorites, item_views>>

\* Priced and unpriced listings, patches of the amount and of the currency,
\* each update on its own session.
NextLedger ==
    \/ Tick
    \/ \E data \in ProductCreate({"bike"}, {None, Some(10)}, {None, Some("DKK")}),
          seller_id \in Sellers : next_id <= MaxListings /\ create(data, seller_id)
    \/ \E p \in Listings : create_finish(p)
    \/ \E p \in Listings, data \in PriceUpdate : update_read(p, data)
    \/ \E s \in sessions : update_commit(s)

SpecLedger == Init /\ [][NextLedger]_vars

ViewCreate == ProductCreate({"bike"}, {Some(10)}, {Some("DKK")})

NextViews ==
    \/ \E data \in ViewCreate, seller_id \in Sellers :
          next_id <= MaxListings /\ create(data, seller_id)
    \/ \E p \in Listings : create_finish(p)
    \/ \E p \in Listings, data \in StatusUpdate : update(p, data, <<>>)
    \/ \E p \in Listings : soft_delete(p)
    \/ \E p \in Listings : delete(p)
    \/ \E p \in Listings, viewer_user_id \in Users : record_view_check(p, viewer_user_id)
    \/ \E s \in sessions : record_view_insert(s)
    \/ \E p \in Listings, current_user_id \in Opt(Users) :
          get_product_by_id(p, current_user_id)

SpecViews == Init /\ [][NextViews]_vars

\* ------------------------------------------------------------ queries
\* Text columns and text parameters are sequences of characters.
categories == (1 :> <<"A", "r", "t">>) @@ (2 :> <<"C", "a", "r", "s">>)

TitleText == ("bike" :> <<"b", "i", "k", "e">>) @@ ("lamp" :> <<"l", "a", "m", "p">>)

LowerCase ==
    ("A" :> "a") @@ ("C" :> "c") @@ ("G" :> "g") @@ ("N" :> "n") @@ ("P" :> "p")

lower(s) == [i \in 1..Len(s) |-> IF s[i] \in DOMAIN LowerCase THEN LowerCase[s[i]] ELSE s[i]]

\* SQL LIKE: % matches any run of characters, _ matches one character.
RECURSIVE Like(_, _)
Like(s, pattern) ==
    IF pattern = <<>> THEN s = <<>>
    ELSE IF Head(pattern) = "%"
    THEN Like(s, Tail(pattern)) \/ (s # <<>> /\ Like(Tail(s), pattern))
    ELSE /\ s # <<>>
         /\ Head(pattern) = "_" \/ Head(pattern) = Head(s)
         /\ Like(Tail(s), Tail(pattern))

\* column.ilike(pattern): lower(column) LIKE lower(pattern)
ilike(column, pattern) == Like(lower(column), lower(pattern))

\* f"%{text}%"
Wrapped(text) == <<"%">> \o text \o <<"%">>

ProductFilter(categorys, prices, statuses) ==
    [category : categorys, min_price : prices, max_price : prices, status : statuses]

NoFilter == [category |-> None, min_price |-> None, max_price |-> None, status |-> None]

\* Product.deleted_at.is_(None)
NotDeleted(rows) == {p \in DOMAIN rows : rows[p].deleted_at = None}

\* ProductRepository._apply_filters on the ids in scope (the location,
\* condition and full-text predicates are left out: the inputs never set
\* them).  A comparison with a NULL price is not true.
_apply_filters(rows, scope, filters) ==
    {p \in scope :
        /\ (filters.category # None /\ filters.category[1] # <<>>) =>
              ilike(categories[rows[p].category_id], Wrapped(filters.category[1]))
        /\ filters.min_price # None =>
              rows[p].price_amount # None /\ rows[p].price_amount[1] >= filters.min_price[1]
        /\ filters.max_price # None =>
              rows[p].price_amount # None /\ rows[p].price_amount[1] <= filters.max_price[1]
        /\ filters.status # None => rows[p].status = filters.status[1]}

\* order_by(desc(Product.created_at)): created_at grows with the id.
RECURSIVE Newest(_)
Newest(ids) == IF ids = {} THEN <<>> ELSE <<Max(ids)>> \o Newest(ids \ {Max(ids)})

\* query.offset(skip).limit(limit); limit None is no limit.
Page(list, skip, limit) ==
    LET last == IF limit = None \/ skip + limit[1] > Len(list)
                THEN Len(list) ELSE skip + limit[1]
    IN SubSeq(list, skip + 1, last)

get_all_filtered_with_deleted(rows, filters, skip, limit) ==
    Page(Newest(_apply_filters(rows, DOMAIN rows, filters)), skip, limit)

\* ProductRepository.get_all_filtered (sort_by = "newest")
get_all_filtered(rows, filters, skip, limit) ==
    Page(Newest(_apply_filters(rows, NotDeleted(rows), filters)), skip, limit)

count_filtered_with_deleted(rows, filters) ==
    Cardinality(_apply_filters(rows, DOMAIN rows, filters))

\* ProductRepository.count_filtered
count_filtered(rows, filters) ==
    Cardinality(_apply_filters(rows, NotDeleted(rows), filters))

\* ProductRepository.get_by_seller
get_by_seller(rows, seller_id, skip, limit) ==
    Page(Newest({p \in NotDeleted(rows) : rows[p].seller_id = seller_id}), skip, limit)

\* ProductRepository.search_by_title (the description column is not
\* modelled: NULL)
search_by_title(rows, query, skip, limit) ==
    Page(Newest({p \in NotDeleted(rows) :
                    /\ ilike(TitleText[rows[p].title], Wrapped(query))
                    /\ rows[p].status = "active"}), skip, limit)

\* ProductRepository.get_by_category
get_by_category(rows, category, skip, limit) ==
    Page(Newest({p \in NotDeleted(rows) :
                    /\ ilike(categories[rows[p].category_id], Wrapped(category))
                    /\ rows[p].status = "active"}), skip, limit)

\* ProductService.get_products(db, skip, limit, filter_params), the listing
\* of the admin router: the same predicates over every row.
get_products(rows, skip, limit, filter_params) ==
    [products |-> Page(Newest(_apply_filters(rows, DOMAIN rows, filter_params)), skip, limit),
     total |-> Cardinality(_apply_filters(rows, DOMAIN rows, filter_params))]

\* Inputs of the queries.
CategoryText ==
    {<<>>, <<"a", "r">>, <<"A", "R", "T">>, <<"c">>, <<"a", "_", "t">>, <<"%">>}

TitleQuery == {<<"a">>, <<"K", "E">>}

AllFilters == ProductFilter(Opt(CategoryText), Opt(Amounts), Opt({"active"}))

\* The filters the requests of the model carry.
AskedFilters ==
    ProductFilter({None, Some(<<"a", "r">>), Some(<<"a", "_", "t">>)},
                  {None, Some(10)}, {None})

\* (skip, limit): everything, and the second page of one.
Pages == {<<0, None>>, <<1, Some(1)>>}

QueryCreate ==
    {[data EXCEPT !.category_id = category_id] :
        data \in ProductCreate({"bike"}, Opt(Amounts), {None, Some("DKK")}),
        category_id \in DOMAIN categories}

\* A read: the result is the response, the store is as before.
Query(op, result) ==
    /\ resp' = [op |-> op, id |-> 0, ok |-> TRUE, code |-> 200, result |-> result]
    /\ UNCHANGED <<sessions, products, price_history, archive, images, blobs, now, next_id,
                   next_image_id, next_url, creating, tasks, product_tags,
                   favorites, item_views>>

NextQuery ==
    \/ \E data \in QueryCreate, seller_id \in Sellers : create(data, seller_id)
    \/ \E p \in Ids : create_finish(p)
    \/ \E p \in Ids : soft_delete(p)
    \/ \E p \in Ids, user_id \in Users : delete_product_soft(p, user_id)
    \/ \E p \in Ids, user_id \in Sellers : toggle_product_status(p, user_id)
    \/ \E filters \in AskedFilters, page \in Pages :
          Query("get_all_filtered", get_all_filtered(products, filters, page[1], page[2]))
    \/ \E filters \in AskedFilters : Query("count_filtered", count_filtered(products, filters))
    \/ \E seller_id \in Users :
          Query("get_by_seller", get_by_seller(products, seller_id, 0, None))
    \/ \E query \in TitleQuery :
          Query("search_by_title", search_by_title(products, query, 0, None))
    \/ \E category \in {<<"a", "r">>, <<"c">>} :
          Query("get_by_category", get_by_category(products, category, 0, None))
    \/ \E filter_params \in AskedFilters :
          Query("get_products", get_products(products, 0, None, filter_params))
    \/ \E p \in Ids, current_user_id \in Opt(Sellers) : get_product_by_id(p, current_user_id)

SpecQuery == Init /\ [][NextQuery]_vars

\* ------------------------------------------------------------ media store
MaxBatch == 2

MAX_FILE_SIZE == 5 * 1024 * 1024

MAX_IMAGES_PER_PRODUCT == 10

ALLOWED_CONTENT_TYPES == {"image/jpeg", "image/png", "image/webp", "image/gif"}

ALLOWED_EXTENSIONS ==
    {<<".", "j", "p", "g">>, <<".", "j", "p", "e", "g">>, <<".", "p", "n", "g">>,
     <<".", "w", "e", "b", "p">>, <<".", "g", "i", "f">>}

\* starlette UploadFile: content_type, filename (<<>> when missing) and the
\* number of bytes read() returns.
UploadFile(content_type, name, size) ==
    [content_type |-> content_type, filename |-> name, size |-> size]

\* pathlib: Path(name).suffix, the last component from its last dot on,
\* empty when there is none or the only dot leads the name.
suffix(name) ==
    LET dots == {i \in 2..Len(name) : name[i] = "."}
    IN IF dots = {} \/ Max(dots) = Len(name)
       THEN <<>>
       ELSE SubSeq(name, Max(dots), Len(name))

\* The checks of _validate_and_save_single_image, in their order; 200 when
\* the file passes them all.
validate_single_image(file) ==
    IF file.content_type \notin ALLOWED_CONTENT_TYPES THEN 400
    ELSE IF file.filename = <<>> THEN 400
    ELSE IF lower(suffix(file.filename)) \notin ALLOWED_EXTENSIONS THEN 400
    ELSE IF file.size > MAX_FILE_SIZE THEN 400
    ELSE IF file.size = 0 THEN 400
    ELSE 200

max_count_or_default(max_count) ==
    IF max_count = None \/ max_count = Some(0) THEN MAX_IMAGES_PER_PRODUCT ELSE max_count[1]

\* FileUploadService.validate_and_save_images(files, max_count) on local
\* storage.  write_fails is the index of the file whose byte write raises (0:
\* none does); open() has created that file by then, and partial tells
\* whether the failed write leaves it behind.  failed are the saved urls the
\* cleanup cannot remove.
save_images(files, max_count, write_fails, partial, failed) ==
    LET n == Len(files)
        raising == {i \in 1..n : validate_single_image(files[i]) # 200 \/ i = write_fails}
        k == CHOOSE i \in raising : \A j \in raising : i <= j
        saved_urls == validate_and_save_images(k - 1)
        written == SeqToSet(saved_urls) \cup (IF k = write_fails /\ partial
                                              THEN {next_url + k - 1} ELSE {})
    IN /\ next_url + n - 1 <= MaxUrls
       /\ write_fails # 0 =>
             /\ write_fails \in raising
             /\ \A i \in 1..write_fails : validate_single_image(files[i]) = 200
       /\ partial => write_fails # 0
       /\ IF files = <<>>
          THEN /\ failed = {}
               /\ resp' = [op |-> "validate_and_save_images", id |-> 0, ok |-> TRUE,
                           code |-> 200, result |-> <<>>]
               /\ UNCHANGED <<blobs, next_url>>
          ELSE IF n > max_count_or_default(max_count)
          THEN /\ failed = {}
               /\ resp' = Rejected("validate_and_save_images", 0, 400)
               /\ UNCHANGED <<blobs, next_url>>
          ELSE IF raising = {}
          THEN /\ failed = {}
               /\ blobs' = blobs \cup SeqToSet(validate_and_save_images(n))
               /\ next_url' = next_url + n
               /\ resp' = [op |-> "validate_and_save_images", id |-> 0, ok |-> TRUE,
                           code |-> 200, result |-> validate_and_save_images(n)]
          ELSE /\ failed \subseteq SeqToSet(saved_urls)
               /\ blobs' = _cleanup_files(blobs \cup written, saved_urls, failed)
               /\ next_url' = next_url + (k - 1) + (IF k = write_fails THEN 1 ELSE 0)
               /\ resp' = Rejected("validate_and_save_images", 0,
                                   IF k = write_fails THEN 500 ELSE 400)
       /\ UNCHANGED <<sessions, products, price_history, archive, images, now, next_id,
                      next_image_id, creating, tasks, product_tags, favorites,
                      item_views>>

\* FileUploadService.delete_images(image_urls) called on its own: it returns
\* None whatever the removals do.
delete_images_call(image_urls, failed) ==
    /\ blobs' = delete_images(blobs, image_urls, failed)
    /\ resp' = [op |-> "delete_images", id |-> 0, ok |-> TRUE, code |-> 200,
                result |-> image_urls]
    /\ UNCHANGED <<sessions, products, price_history, archive, images, now, next_id,
                   next_image_id, next_url, creating, tasks, product_tags, favorites,
                   item_views>>

Jpg == <<"a", ".", "j", "p", "g">>

UploadFiles ==
    {UploadFile("image/jpeg", Jpg, 1),
     UploadFile("image/png", <<"a", ".", "b", ".", "P", "N", "G">>, MAX_FILE_SIZE),
     UploadFile("text/plain", Jpg, 1),
     UploadFile("image/jpeg", <<>>, 1),
     UploadFile("image/jpeg", <<"a", ".", "e", "x", "e">>, 1),
     UploadFile("image/gif", <<".", "g", "i", "f">>, 1),
     UploadFile("image/jpeg", Jpg, MAX_FILE_SIZE + 1),
     UploadFile("image/jpeg", Jpg, 0)}

Batches == UNION {[1..n -> UploadFiles] : n \in 0..MaxBatch}

\* Urls a caller can pass to delete_images: the ones the store handed out,
\* and urls of another directory or host ending in the same file name.
AnyUrls == {u : u \in 1..MaxUrls} \cup {-u : u \in 1..MaxUrls}

UrlLists == UNION {[1..n -> AnyUrls] : n \in 0..MaxBatch}

NextStore ==
    \/ \E files \in Batches, max_count \in Opt(0..MaxBatch), write_fails \in 0..MaxBatch,
          partial \in BOOLEAN, failed \in SUBSET (1..MaxUrls) :
          save_images(files, max_count, write_fails, partial, failed)
    \/ \E image_urls \in UrlLists, failed \in SUBSET AnyUrls :
          failed \subseteq SeqToSet(image_urls) /\ delete_images_call(image_urls, failed)

SpecStore == Init /\ [][NextStore]_vars

\* ------------------------------------------------------------ search
MAX_SEARCH_LENGTH == 100

DEFAULT_SEARCH_LIMIT == 20

too_long_inclusive(search_term) == Len(search_term) >= MAX_SEARCH_LENGTH

too_long(search_term) == Len(search_term) > MAX_SEARCH_LENGTH

\* A call of the repository as the service made it.
Call(op, query, skip, limit) == [op |-> op, query |-> query, skip |-> skip, limit |-> limit]

\* ProductService.search_products(search_term, skip=0, limit=20) of the
\* repository-backed service: the over-length term is refused with 400,
\* any other goes to ProductRepository.search_by_title.  skip and limit are
\* None where the caller leaves them out; the response keeps the request
\* (args) and the repository calls it led to.
search_products(search_term, skip, limit) ==
    LET skip_ == IF skip = None THEN 0 ELSE skip[1]
        limit_ == IF limit = None THEN DEFAULT_SEARCH_LIMIT ELSE limit[1]
        request == [search_term |-> search_term, skip |-> skip, limit |-> limit]
    IN /\ IF too_long(search_term)
          THEN resp' = [op |-> "search_products", id |-> 0, ok |-> FALSE, code |-> 400,
                        args |-> request, result |-> <<>>, calls |-> <<>>]
          ELSE resp' = [op |-> "search_products", id |-> 0, ok |-> TRUE, code |-> 200,
                        args |-> request,
                        result |-> search_by_title(products, search_term, skip_,
                                                   Some(limit_)),
                        calls |-> <<Call("search_by_title", search_term, skip_, limit_)>>]
       /\ UNCHANGED <<sessions, products, price_history, archive, images, blobs, now,
                      next_id, next_image_id, next_url, creating, tasks, product_tags,
                      favorites, item_views>>

\* A term of n letters.
Term(n) == [i \in 1..n |-> "b"]

SearchTerms == {Term(n) : n \in {0, 1, MAX_SEARCH_LENGTH - 1, MAX_SEARCH_LENGTH,
                                 MAX_SEARCH_LENGTH + 1, MAX_SEARCH_LENGTH + 2}}

SearchCreate == ProductCreate({"bike", "lamp"}, {Some(10)}, {Some("DKK")})

NextSearch ==
    \/ \E data \in SearchCreate, seller_id \in Sellers : create(data, seller_id)
    \/ \E p \in Ids : create_finish(p)
    \/ \E p \in Ids : soft_delete(p)
    \/ \E p \in Ids, user_id \in Sellers : toggle_product_status(p, user_id)
    \/ \E search_term \in SearchTerms, skip \in Opt({0, 1}), limit \in Opt({1, MaxId}) :
          search_products(search_term, skip, limit)

SpecSearch == Init /\ [][NextSearch]_vars

\* ------------------------------------------------------------ image rows
MaxImageRows == 4

\* new_image_urls / image_urls: up to MaxBatch urls, repeats included.
ImageUrlLists == UNION {[1..n -> 1..MaxUrls] : n \in 0..MaxBatch}

\* The repository alone: create with image_urls, update with keep_image_ids
\* and new_image_urls, delete.
NextImages ==
    \/ \E image_urls \in ImageUrlLists, seller_id \in Sellers :
          /\ next_id <= MaxListings
          /\ next_image_id + Len(image_urls) - 1 <= MaxImageRows
          /\ create([MediaProduct EXCEPT !.image_urls = image_urls], seller_id)
    \/ \E p \in Listings : create_finish(p)
    \/ \E p \in Listings, new_image_urls \in ImageUrlLists :
          \E keep \in KeepImageIds(p) :
             /\ next_image_id + Len(new_image_urls) - 1 <= MaxImageRows
             /\ update(p, [NoUpdate EXCEPT !.keep_image_ids = keep], new_image_urls)
    \/ \E p \in Listings : delete(p)

SpecImages == Init /\ [][NextImages]_vars

\* =================================================================== claims
Status(p) == products[p].status

MarkSoldStep(p) ==
    archive_sold_product(p) \/ \E user_id \in Users : mark_product_sold(p, user_id)

\* C1: markSold is indivisible: a successful markSold step writes the
\* SoldArchiveRecord of the sale and flips the status to sold together, and a
\* failed one leaves neither effect.
C1_MarkSoldIndivisible ==
    [][\A p \in Ids : MarkSoldStep(p) =>
          IF resp'.ok
          THEN /\ products'[p].status = "sold"
               /\ \E a \in archive' \ archive : a.product_id = Some(p)
          ELSE UNCHANGED <<products, archive>>]_vars

OneSided(amount, currency) == (amount = None) # (currency = None)

UpdateStep(p, data) ==
    \/ update(p, data, <<>>)
    \/ \E user_id \in Users, is_admin \in BOOLEAN : update_product(p, data, user_id, is_admin)

\* C7: every stored listing has price_amount null exactly when
\* price_currency is null, and a create or update that would set only one of
\* the two is rejected, leaving the listings and the price history unchanged.
C7_PriceBothOrNeither ==
    /\ [](\A p \in DOMAIN products :
             (products[p].price_amount = None) <=> (products[p].price_currency = None))
    /\ [][/\ \A data \in PriceCreate, seller_id \in Sellers :
               (create(data, seller_id) /\ OneSided(data.price_amount, data.price_currency))
                  => resp'.ok = FALSE /\ UNCHANGED <<products, price_history>>
          /\ \A p \in Ids, data \in PriceUpdate :
               (UpdateStep(p, data) /\ Exists(p)
                  /\ OneSided(Get(data, "price_amount", products[p].price_amount),
                              Get(data, "price_currency", products[p].price_currency)))
                  => resp'.ok = FALSE /\ UNCHANGED <<products, price_history>>]_vars

C7_Witness ==
    \E p \in DOMAIN products :
       /\ products[p].price_amount # None
       /\ HistoryOf(p) # {}
       /\ resp = Response("update", p, FALSE)

\* C8: repository update appends a PriceHistoryEntry iff the resulting
\* (amount, currency) pair differs from the current one: none for an
\* unchanged price, exactly one carrying the new pair otherwise, its
\* changed_at not before any earlier entry of the listing.
C8_HistoryIffPriceChanged ==
    [][\A p \in Ids, data \in PriceUpdate :
          (update(p, data, <<>>) /\ Exists(p)) =>
             LET new_amount == Get(data, "price_amount", products[p].price_amount)
                 new_currency == Get(data, "price_currency", products[p].price_currency)
                 changed == \/ new_amount # products[p].price_amount
                            \/ new_currency # products[p].price_currency
             IN IF ~changed THEN price_history' = price_history
                ELSE (new_amount # None /\ new_currency # None) =>
                        \E h \in price_history' \ price_history :
                           /\ price_history' = price_history \cup {h}
                           /\ h.product_id = p
                           /\ h.amount = new_amount[1]
                           /\ h.currency = new_currency[1]
                           /\ \A e \in HistoryOf(p) : e.changed_at <= h.changed_at]_vars

\* C9: no state shows a listing row committed without its initial
\* PriceHistoryEntry.
C9_CreateAtomic ==
    \A p \in DOMAIN products :
       products[p].price_amount # None => HistoryOf(p) # {}

\* C10: every MediaAsset row references bytes that exist in the media store.
C10_MediaRowsHaveBytes ==
    \A img \in images : img.url \in blobs

\* Requests that leave a stage in this step, and those that end in it with
\* an error.
\* The repository call of a request that saved bytes fails: the listing row
\* is gone, or the commit violates a constraint.
RepositoryFails(t) ==
    \/ ~Exists(t.id)
    \/ t.op = "update_product" /\ ~update_result(t.id, t.data, t.urls).ok

FailingCall(t, failed) ==
    \/ t.op = "update_product" /\ RepositoryFails(t) /\ update_product_commit(t, failed)
    \/ t.op = "create_product" /\ RepositoryFails(t) /\ create_product_finish(t, failed)

Ended == tasks \ tasks'

\* The requests whose repository call fails in this step.
Failed ==
    {t \in tasks : \E failed \in SUBSET SeqToSet(t.urls) : FailingCall(t, failed)}

\* C11: bytes of superseded or removed media are deleted only after the
\* owning transaction committed: a committing update or hard delete removes
\* no bytes and hands over exactly the urls of the rows it removed; bytes
\* disappear only in the purge of such a committed request (or as the
\* compensation of bytes saved by a failed request); a failed update deletes
\* no bytes of the listing's existing media.
C11_PurgeAfterCommit ==
    [][/\ \A u \in blobs \ blobs' :
             \E t \in Ended : /\ u \in SeqToSet(t.urls)
                              /\ t.pc = "committed" \/ t \in Failed
       /\ \A t \in tasks' \ tasks : t.pc = "committed" =>
             /\ blobs' = blobs
             /\ t.urls = UrlsById(ImagesOf(images, t.id) \ images')
       /\ \A t \in Failed : t.op = "update_product" =>
             /\ images' = images
             /\ \A img \in ImagesOf(images, t.id) : img.url \in blobs => img.url \in blobs']_vars

C11_Witness ==
    \E p \in DOMAIN products :
       /\ resp = Response("update_product", p, TRUE)
       /\ ImagesOf(images, p) # {}
       /\ \E u \in 1..MaxUrls : u < next_url /\ u \notin blobs
       /\ \A img \in images : img.url \in blobs

UpdateCall(p, user_id, is_admin) ==
    \/ \E data \in ServiceUpdate(p), n \in 0..MaxFiles :
          update_product_save(p, data, user_id, is_admin, n)
    \/ update_product(p, [NoUpdate EXCEPT !.title = <<"lamp">>], user_id, is_admin)

MarkSoldCall(p, user_id, is_admin) ==
    \/ mark_product_as_sold(p, user_id, is_admin)
    \/ ~is_admin /\ mark_product_sold(p, user_id)

OwnerOnlyCall(p, user_id) ==
    \/ delete_product_soft(p, user_id)
    \/ delete_product(p, user_id)
    \/ toggle_product_status(p, user_id)

StoreUnchanged ==
    UNCHANGED <<products, price_history, archive, images, blobs, tasks, creating,
                next_id, next_image_id, next_url>>

\* Rejected with NotFound when the listing is absent, with Forbidden when it
\* is there and the actor may not act on it (a tombstoned listing is
\* rejected with either), the store unchanged.
GateHolds(p, allowed) ==
    /\ ~Exists(p) => resp'.code = 404 /\ StoreUnchanged
    /\ (Exists(p) /\ ~allowed) =>
          /\ resp'.code \in {403, 404}
          /\ get_by_id(p) => resp'.code = 403
          /\ StoreUnchanged

\* C13: update and markSold by an actor who is neither owner nor admin, and
\* delete and toggle-status by an actor who is not the owner, are rejected
\* with Forbidden, each of them on an absent listing with NotFound, and a
\* rejected call changes nothing in the store or the media store.
C13_AuthorizationGate ==
    [][\A p \in Listings, user_id \in Users :
          /\ \A is_admin \in BOOLEAN :
                (UpdateCall(p, user_id, is_admin) \/ MarkSoldCall(p, user_id, is_admin))
                   => GateHolds(p, is_admin \/ products[p].seller_id = user_id)
          /\ OwnerOnlyCall(p, user_id) => GateHolds(p, products[p].seller_id = user_id)]_vars

C13_Witness ==
    \E p \in DOMAIN products :
       /\ resp = Rejected("update_product", p, 403)
       /\ ImagesOf(images, p) # {}
       /\ blobs = LinkedUrls

\* Every column of every listing row except deleted_at.
LiveColumns(rows) == [q \in DOMAIN rows |-> [rows[q] EXCEPT !.deleted_at = None]]

SoftDeleteCall(p) ==
    soft_delete(p) \/ \E user_id \in Users : delete_product_soft(p, user_id)

Dependents(p, hist, imgs, tags, favs, views) ==
    {h \in hist : h.product_id = p} \cup ImagesOf(imgs, p)
        \cup {r \in tags : r.product_id = p}
        \cup {f \in favs : f.product_id = p}
        \cup {v \in views : v.product_id = p}

\* C16: a hard delete (ProductRepository.delete, and force_delete_product
\* built on it) of an existing listing removes in one step the listing row
\* and exactly the tag-join, price-history, image, favorite and view rows
\* that reference it, and hands the urls of its images to the removal of
\* their bytes; of an absent listing it changes no row, reports failure,
\* hands over no url and removes no bytes.
C16_HardDeleteCascades ==
    [][\A p \in Ids : (delete(p) \/ force_delete_product(p)) =>
          IF Exists(p)
          THEN /\ products' = Remove(products, p)
               /\ Dependents(p, price_history', images', product_tags',
                             favorites', item_views') = {}
               /\ price_history' = price_history \ HistoryOf(p)
               /\ images' = images \ ImagesOf(images, p)
               /\ product_tags' = product_tags \ TagsOf(p)
               /\ favorites' = favorites \ FavoritesOf(p)
               /\ item_views' = item_views \ ViewsOf(p)
               /\ blobs' = blobs
               /\ \/ resp' = Response("delete", p, TRUE) /\ tasks' = tasks
                  \/ /\ resp' = resp
                     /\ \E t \in tasks' : /\ tasks' = tasks \cup {t}
                                          /\ t.pc = "committed"
                                          /\ t.urls = UrlsById(ImagesOf(images, p))
          ELSE /\ ~resp'.ok
               /\ UNCHANGED <<products, price_history, images, product_tags,
                              favorites, item_views, archive, blobs, tasks>>]_vars

\* A second force delete of a listing that is gone: it reported failure,
\* stored bytes are still there, and another listing kept its favorite and
\* its view.
C16_Witness ==
    /\ resp = Response("force_delete_product", 1, FALSE)
    /\ ~Exists(1) /\ next_id > 1
    /\ blobs # {}
    /\ \E q \in DOMAIN products : FavoritesOf(q) # {} /\ ViewsOf(q) # {} /\ TagsOf(q) # {}

\* C20: record_view for a (listing, viewer) pair with no view row inserts
\* exactly one row for the pair, returns True and raises views_count of the
\* listing by exactly 1; for a pair that already has a row (the second of
\* two calls in sequence) it returns False and changes neither the rows nor
\* the counter.
C20_RecordViewIdempotent ==
    [][\A p \in Ids, viewer_user_id \in Users : record_view(p, viewer_user_id) =>
          LET Pair(views) == {v \in views : /\ v.product_id = p
                                            /\ v.viewer_user_id = viewer_user_id}
          IN IF Exists(p) /\ Pair(item_views) = {}
             THEN /\ resp' = Response("record_view", p, TRUE)
                  /\ Cardinality(Pair(item_views')) = 1
                  /\ item_views \subseteq item_views'
                  /\ Cardinality(item_views') = Cardinality(item_views) + 1
                  /\ products' = [products EXCEPT ![p].views_count = @ + 1]
             ELSE /\ resp' = Response("record_view", p, FALSE)
                  /\ UNCHANGED <<item_views, products>>]_vars

\* After the second call for the same pair: it returned False, the pair has
\* one row and the counter is 1.
C20_Witness ==
    \E p \in DOMAIN products :
       /\ resp = Response("record_view", p, FALSE)
       /\ Cardinality(ViewsOf(p)) = 1
       /\ products[p].views_count = 1

\* C17: no step removes or alters a sold_item_archive row: every row is
\* still there after the step with the same title, category, location, price
\* and sold_at, and with the same listing reference unless the listing was
\* hard-deleted by the step, in which case (and only then) the reference is
\* null; no row refers to a listing that does not exist.
C17_ArchiveSurvives ==
    [][/\ \A a \in archive :
             \E b \in archive' :
                /\ b = [a EXCEPT !.product_id = b.product_id]
                /\ b.product_id = IF a.product_id # None
                                     /\ a.product_id[1] \notin DOMAIN products'
                                  THEN None ELSE a.product_id
       /\ \A b \in archive' :
             b.product_id # None => b.product_id[1] \in DOMAIN products']_vars

\* The record of an earlier sale whose listing was hard-deleted: it has its
\* title, price and sold_at, and no listing reference.
C17_Witness ==
    /\ resp.op \in {"delete", "delete_product"} /\ resp.ok
    /\ products = <<>>
    /\ \E a \in archive : /\ a.product_id = None
                          /\ a.title = "bike"
                          /\ a.price_amount = Some(10)
                          /\ a.sold_at = 0
    /\ now = 1

Tombstoned == {p \in DOMAIN products : products[p].deleted_at # None}

C18_CountMatchesList ==
    \A filters \in AllFilters :
       count_filtered(products, filters) = Len(get_all_filtered(products, filters, 0, None))

\* count_filtered has just returned 1 for a filter that a live listing and a
\* tombstoned listing both satisfy.
C18_Witness ==
    /\ resp.op = "count_filtered" /\ resp.result = 1
    /\ Tombstoned # {}
    /\ \E filters \in AskedFilters :
          /\ filters.category # None /\ filters.min_price # None
          /\ count_filtered(products, filters) = 1
          /\ Cardinality(_apply_filters(products, DOMAIN products, filters)) = 2

\* The text contains sub as a run of consecutive characters.
Contains(s, sub) ==
    \E i \in 0..(Len(s) - Len(sub)) : SubSeq(s, i + 1, i + Len(sub)) = sub

\* The listings that satisfy every supplied predicate, the category one read
\* as containment (case-insensitive) of the given text in the category name.
Matching(filters) ==
    {p \in DOMAIN products :
        /\ products[p].deleted_at = None
        /\ filters.category # None =>
              Contains(lower(categories[products[p].category_id]), lower(filters.category[1]))
        /\ filters.min_price # None =>
              /\ products[p].price_amount # None
              /\ products[p].price_amount[1] >= filters.min_price[1]
        /\ filters.max_price # None =>
              /\ products[p].price_amount # None
              /\ products[p].price_amount[1] <= filters.max_price[1]
        /\ filters.status # None => products[p].status = filters.status[1]}

\* C19 (as claimed): get_all_filtered with a category and a price range
\* returns exactly the live listings whose category name contains the
\* category text and whose price is within the range; a listing that fails a
\* supplied predicate, one with no price under a price bound included, is
\* not returned.
C19_CategoryAndPriceRange ==
    \A filters \in AllFilters :
       filters.category # None =>
          SeqToSet(get_all_filtered(products, filters, 0, None)) = Matching(filters)

\* The same for category texts without the LIKE wildcards % and _.
CategoryAndPriceRangeWithoutWildcards ==
    \A filters \in AllFilters :
       (filters.category # None /\ SeqToSet(filters.category[1]) \cap {"%", "_"} = {}) =>
          SeqToSet(get_all_filtered(products, filters, 0, None)) = Matching(filters)

PairViews(views, p, viewer_user_id) ==
    {v \in views : v.product_id = p /\ v.viewer_user_id = viewer_user_id}

\* C21 (as claimed): whatever the interleaving of the record_view calls, a
\* (listing, viewer) pair has at most one item_views row.
C21_OneViewPerPair ==
    \A p \in Ids, viewer_user_id \in Users :
       Cardinality(PairViews(item_views, p, viewer_user_id)) <= 1

\* C22: ProductService.get_product_by_id adds a view row only for a listing
\* that exists, fetched by an authenticated caller who is not its seller and
\* to whom it is visible (status active or sold), and then one row for that
\* pair unless the pair has one; the seller gets the listing and no row; a
\* non-seller asking for a draft or paused listing gets nothing and no row.
C22_ViewOnlyWhenEligible ==
    [][\A p \in Ids, current_user_id \in Opt(Users) :
          get_product_by_id(p, current_user_id) =>
             LET owner == Exists(p) /\ current_user_id = Some(products[p].seller_id)
                 visible == Exists(p) /\ (owner \/ products[p].status \in {"active", "sold"})
                 eligible == visible /\ ~owner /\ current_user_id # None
             IN /\ resp'.ok <=> visible
                /\ item_views \subseteq item_views'
                /\ IF eligible /\ PairViews(item_views, p, current_user_id[1]) = {}
                   THEN /\ Cardinality(item_views' \ item_views) = 1
                        /\ item_views' \ item_views
                              \subseteq PairViews(item_views', p, current_user_id[1])
                   ELSE item_views' = item_views]_vars

\* A caller who is not the seller has just been refused a paused listing,
\* which has no view.
C22_Witness ==
    \E p \in DOMAIN products :
       /\ resp = Rejected("get_product_by_id", p, 404)
       /\ products[p].status = "paused"
       /\ ViewsOf(p) = {}

\* C23 (as claimed): after a validate_and_save_images call that fails, for a
\* count over the limit, an invalid file or a failed byte write, the store
\* holds no bytes it did not hold before the call.
C23_SaveAllOrNothing ==
    [][(resp'.op = "validate_and_save_images" /\ ~resp'.ok) => blobs' = blobs]_vars

\* What holds of C23: a failed call leaves nothing behind when the failed
\* write leaves no file and the cleanup removes every saved url.
SaveAllOrNothingWithoutLeftovers ==
    [][\A files \in Batches, max_count \in Opt(0..MaxBatch), write_fails \in 0..MaxBatch :
          save_images(files, max_count, write_fails, FALSE, {}) =>
             IF resp'.ok
             THEN /\ Len(resp'.result) = Len(files)
                  /\ blobs' = blobs \cup SeqToSet(resp'.result)
                  /\ SeqToSet(resp'.result) \cap blobs = {}
             ELSE blobs' = blobs]_vars

\* C24 (as claimed): delete_images never raises, removes every listed url
\* whose removal does not fail, and leaves every url that is not listed.
C24_DeleteBestEffort ==
    [][\A image_urls \in UrlLists, failed \in SUBSET AnyUrls :
          delete_images_call(image_urls, failed) =>
             /\ resp'.ok
             /\ \A url \in SeqToSet(image_urls) \ failed : url \notin blobs'
             /\ \A url \in blobs \ SeqToSet(image_urls) : url \in blobs']_vars

\* What holds of C24: the same for lists of urls the store handed out.
DeleteBestEffortOfStoreUrls ==
    [][\A image_urls \in UrlLists, failed \in SUBSET AnyUrls :
          (delete_images_call(image_urls, failed) /\ SeqToSet(image_urls) \subseteq 1..MaxUrls) =>
             /\ resp'.ok
             /\ blobs' = blobs \ (SeqToSet(image_urls) \ failed)]_vars

\* C25: search_products refuses a term of more than 100 characters with 400
\* and without a repository call; any term of 0..100 characters goes to
\* search_by_title exactly once, with the caller's skip and limit (0 and 20
\* where the caller gives none), and the repository's answer is the result.
C25_SearchLengthGate ==
    [][(resp'.op = "search_products" /\ products' = products) =>
          LET search_term == resp'.args.search_term
              skip == resp'.args.skip
              limit == resp'.args.limit
          IN IF Len(search_term) > 100
             THEN resp'.code = 400 /\ ~resp'.ok /\ resp'.calls = <<>>
             ELSE /\ resp'.ok
                  /\ Len(resp'.calls) = 1
                  /\ resp'.calls[1].op = "search_by_title"
                  /\ resp'.calls[1].query = search_term
                  /\ resp'.calls[1].skip = (IF skip = None THEN 0 ELSE skip[1])
                  /\ resp'.calls[1].limit = (IF limit = None THEN 20 ELSE limit[1])
                  /\ resp'.result = search_by_title(products, search_term,
                                                    resp'.calls[1].skip,
                                                    Some(resp'.calls[1].limit))]_vars

\* A term of exactly 100 characters has gone to the repository with the
\* default page, over a store that holds a listing.
C25_Witness ==
    /\ resp.op = "search_products" /\ resp.ok
    /\ Len(resp.calls[1].query) = 100
    /\ resp.args.skip = None /\ resp.args.limit = None
    /\ resp.calls[1].skip = 0 /\ resp.calls[1].limit = 20
    /\ products # <<>>

\* C26 (as claimed): a price update that reaches the repository while the
\* listing's newest history entry carries the same changed_at (the update
\* it runs alongside has just committed) succeeds as well and appends an
\* entry of its own carrying its pair.
C26_SameTimestampUpdatesBothLand ==
    [][\A p \in Ids, data \in PriceUpdate :
          (/\ update(p, data, <<>>)
           /\ Exists(p)
           /\ \E h \in HistoryOf(p) : h.changed_at = now) =>
             LET new_amount == Get(data, "price_amount", products[p].price_amount)
                 new_currency == Get(data, "price_currency", products[p].price_currency)
                 changed == \/ new_amount # products[p].price_amount
                            \/ new_currency # products[p].price_currency
             IN (changed /\ new_amount # None /\ new_currency # None) =>
                   /\ resp'.ok
                   /\ products'[p].price_amount = new_amount
                   /\ products'[p].price_currency = new_currency
                   /\ Cardinality({h \in price_history' : h.product_id = p})
                         = Cardinality(HistoryOf(p)) + 1]_vars

\* C27 (as claimed): in every committed state the sort orders of a listing's
\* images are exactly 0..n-1 for its n rows.
C27_SortOrdersContiguous ==
    \A p \in DOMAIN products :
       LET rows == ImagesOf(images, p)
       IN /\ {img.sort_order : img \in rows} = 0..(Cardinality(rows) - 1)
          /\ \A a, b \in rows : a.sort_order = b.sort_order => a = b

\* C28: ProductRepository.update with keep_image_ids deletes exactly the
\* listing's image rows whose id is not in the set and returns exactly their
\* urls, leaves the kept rows as they are, and adds one row per new url, in
\* input order, each sort order above that of every remaining row; without
\* keep_image_ids it deletes no row and returns no url.
C28_KeepImageIds ==
    [][\A p \in Listings, new_image_urls \in ImageUrlLists :
          \A keep \in KeepImageIds(p) :
             LET data == [NoUpdate EXCEPT !.keep_image_ids = keep]
                 rows == ImagesOf(images, p)
                 gone == IF keep = Unset THEN {}
                         ELSE {img \in rows : img.id \notin keep[1]}
                 added == ImagesOf(images', p) \ rows
                 returned == update_result(p, data, new_image_urls).deleted_image_urls
                 row(i) == CHOOSE img \in added : img.id = next_image_id + i - 1
             IN (update(p, data, new_image_urls) /\ Exists(p) /\ resp'.ok) =>
                   /\ ImagesOf(images', p) \cap rows = rows \ gone
                   /\ images' \ ImagesOf(images', p) = images \ rows
                   /\ SeqToSet(returned) = {img.url : img \in gone}
                   /\ Len(returned) = Cardinality(gone)
                   /\ Cardinality(added) = Len(new_image_urls)
                   /\ \A i \in 1..Len(new_image_urls) :
                         /\ \E img \in added : img.id = next_image_id + i - 1
                         /\ row(i).url = new_image_urls[i]
                         /\ \A img \in rows \ gone : img.sort_order < row(i).sort_order
                         /\ i > 1 => row(i - 1).sort_order < row(i).sort_order]_vars

\* An update has dropped the second of two images and added two: the rows
\* left carry the sort orders 0, 2 and 3.
C28_Witness ==
    \E p \in DOMAIN products :
       /\ resp = Response("update", p, TRUE)
       /\ {img.sort_order : img \in ImagesOf(images, p)} = {0, 2, 3}
       /\ Cardinality(ImagesOf(images, p)) = 3

\* The entries of a listing that come next to each other in changed_at order.
Consecutive(p) ==
    {<<a, b>> \in HistoryOf(p) \X HistoryOf(p) :
        /\ a.changed_at < b.changed_at
        /\ ~ \E h \in HistoryOf(p) : a.changed_at < h.changed_at /\ h.changed_at < b.changed_at}

\* C29 (as claimed): whatever the interleaving of create and the price
\* updates, once a listing with a price has its rows committed, its newest
\* history entry carries the current (price_amount, price_currency), and no
\* two consecutive entries carry the same pair.
C29_LedgerFollowsPrice ==
    \A p \in DOMAIN products :
       (p \notin DOMAIN creating /\ products[p].price_amount # None) =>
          /\ \E h \in HistoryOf(p) :
                /\ \A e \in HistoryOf(p) : e.changed_at <= h.changed_at
                /\ Some(h.amount) = products[p].price_amount
                /\ Some(h.currency) = products[p].price_currency
          /\ \A pair \in Consecutive(p) :
                \/ pair[1].amount # pair[2].amount
                \/ pair[1].currency # pair[2].currency

\* A step of the repository-backed service on listing p: a call of
\* delete_product, toggle_product_status or mark_product_as_sold, the check
\* of update_product, or the repository write of an update_product whose
\* check has passed.
ServiceCall(p) ==
    \/ \E user_id \in Users : delete_product_soft(p, user_id)
    \/ \E user_id \in Users : toggle_product_status(p, user_id)
    \/ \E user_id \in Users, is_admin \in BOOLEAN : mark_product_as_sold(p, user_id, is_admin)
    \/ \E user_id \in Users, is_admin \in BOOLEAN, n \in 0..MaxFiles :
          \E data \in ServiceUpdate(p) : update_product_save(p, data, user_id, is_admin, n)

ServiceWrite(p) ==
    \E t \in tasks : \E failed \in SUBSET SeqToSet(t.urls) :
       t.id = p /\ update_product_commit(t, failed)

\* C30 (as claimed): a call of the service on a tombstoned listing is refused
\* with 404, and no step of the service, the repository write of an update
\* that passed its check before the soft delete included, changes the
\* tombstoned listing's row, price history or image rows.
C30_TombstoneNeverMutated ==
    [][\A p \in Ids :
          (Exists(p) /\ products[p].deleted_at # None) =>
             /\ ServiceCall(p) => resp'.code = 404
             /\ (ServiceCall(p) \/ ServiceWrite(p)) =>
                   /\ Exists(p)' /\ products'[p] = products[p]
                   /\ {h \in price_history' : h.product_id = p} = HistoryOf(p)
                   /\ ImagesOf(images', p) = ImagesOf(images, p)]_vars

\* What holds of C30: the calls on a tombstoned listing are refused with 404
\* and change nothing of it.
TombstonedCallsRefused ==
    [][\A p \in Ids :
          (Exists(p) /\ products[p].deleted_at # None /\ ServiceCall(p)) =>
             /\ resp'.code = 404
             /\ Exists(p)' /\ products'[p] = products[p]
             /\ {h \in price_history' : h.product_id = p} = HistoryOf(p)
             /\ ImagesOf(images', p) = ImagesOf(images, p)]_vars

====
